---- MODULE Spec2Model ----
(***************************************************************************)
(* Tuple storage layer of RadDB: the disk-backed page (Block) with its    *)
(* reader/writer handles (InUse, InUseMut), and the TupleStorage facade   *)
(* on top of the extendible-hashing directory.                            *)
(***************************************************************************)
EXTENDS Integers, Sequences, FiniteSets, TLC

\* ------------------------------------------------------------------ bounds
NumThreads == 2
MaxKey == 2
NumInserters == 3
MaxVal == 1
HashSpace == 16
BucketSize == 1
MaxReads == 1
MaxLeaves == 4
MaxLevels == 3
MaxAttributes == 3

Threads == 1..NumThreads
Keys == 0..MaxKey
Vals == 0..MaxVal

VARIABLES
    fs,             \* the files under DB_STORAGE: path -> sequence of lines
    parent_table,   \* Block.parent_table, per block number
    block_contents, \* Block.block_contents, per block number (an Option)
    block_len,      \* Block.len, per block number
    usage,          \* Block.usage (the RwLock), per block number
    reads,          \* Block.reads, per block number
    pc,             \* per thread: the line it is at
    tblock,         \* per thread: the block its call or handle is on
    local,          \* per thread: `tuples` of load / `internal` of unload
    storage_len,    \* TupleStorage.len
    identifier,     \* TupleStorage.identifier
    global_depth,   \* BlockDirectory: global depth
    slots,          \* BlockDirectory: slot array of (block number, local depth)
    call,           \* the last TupleStorage call: its name and argument
    ret,            \* the result that call returned
    history         \* per block number: what has happened to the page so far
                    \* (for a condition: the leaves it was built from)

vars == <<fs, parent_table, block_contents, block_len, usage, reads, pc, tblock,
          local, storage_len, identifier, global_depth, slots, call, ret, history>>

blockVars == <<fs, parent_table, block_contents, block_len, usage, reads>>
threadVars == <<pc, tblock, local>>
storeVars == <<storage_len, identifier, global_depth, slots, call, ret>>

\* ------------------------------------------------------------- tuples, types
\* A value is <<type, n>>; a tuple is a sequence of values.
RelTypes == <<"Int", "Text">>
Types == {"Int", "Text"}

Tuples == {<<<<"Int", k>>, <<ty, v>>>> : k \in Keys, ty \in Types, v \in Vals}
WellTyped(tuple) == \A i \in 1..Len(tuple) : tuple[i][1] = RelTypes[i]
GoodTuples == {t \in Tuples : WellTyped(t)}

\* positions (0-based, as Vec<usize>) whose value is not of the declared type
BadPositions(tuple) == {i - 1 : i \in {j \in 1..Len(tuple) : tuple[j][1] # RelTypes[j]}}

\* PrimaryKeyDefinition: the attribute positions (0-based) that form the key
primary_key_definition == {0}

get_primary_key_of_tuple(tuple) ==
    LET idx == {i \in 1..Len(tuple) : (i - 1) \in primary_key_definition}
        F[i \in 0..Len(tuple)] ==
            IF i = 0 THEN <<>>
            ELSE IF i \in idx THEN Append(F[i - 1], tuple[i]) ELSE F[i - 1]
    IN F[Len(tuple)]

\* PrimaryKey::hash: a deterministic function of the key values
RECURSIVE KeyHashFrom(_, _)
KeyHashFrom(key, acc) ==
    IF key = <<>> THEN acc % HashSpace
    ELSE KeyHashFrom(Tail(key), 7 * (acc + Head(key)[2]) + 6)

PrimaryKey_hash(key) == KeyHashFrom(key, 0)

hash_tuple(tuple) == PrimaryKey_hash(get_primary_key_of_tuple(tuple))

\* ------------------------------------------------------------ the page file
\* BigUint's Display: the decimal digits, most significant first
RECURSIVE ToDecimal(_)
ToDecimal(n) == IF n < 10 THEN <<n>> ELSE Append(ToDecimal(n \div 10), n % 10)

\* a variant that reads the digits least significant first
RECURSIVE FromDecimal_reversed(_)
FromDecimal_reversed(digits) ==
    IF Len(digits) = 0 THEN 0
    ELSE 10 * FromDecimal_reversed(Tail(digits)) + Head(digits)

\* BigUint::from_str
RECURSIVE FromDecimal(_)
FromDecimal(digits) ==
    IF Len(digits) = 0 THEN 0
    ELSE 10 * FromDecimal(SubSeq(digits, 1, Len(digits) - 1)) + digits[Len(digits)]

\* serialize_values: the text of each value; the text carries no type
serialize_values(tuple) == [i \in 1..Len(tuple) |-> tuple[i][2]]

\* parse_using_types: each text read as a value of the declared type
parse_using_types(text) == [i \in 1..Len(text) |-> <<RelTypes[i], text[i]>>]

\* one line "<hash>:<tuple>" of a page file
WriteLine(entry) == <<ToDecimal(entry[1]), serialize_values(entry[2])>>
ReadLine(line) == <<FromDecimal(line[1]), parse_using_types(line[2])>>

None == [some |-> FALSE, internal |-> <<>>]
Some(entries) == [some |-> TRUE, internal |-> entries]

NoTuple == [some |-> FALSE, val |-> <<>>]
SomeTuple(tuple) == [some |-> TRUE, val |-> tuple]

\* Block::file_name: DB_STORAGE/<parent_table>/block_<block_num>.txt
file_name(b) == <<parent_table[b], b>>

\* the lines written by the loop of Block::unload
SerializeEntries(internal) == [i \in 1..Len(internal) |-> WriteLine(internal[i])]

\* the entries built by the loop of Block::load
ParseLines(lines) == [i \in 1..Len(lines) |-> ReadLine(lines[i])]

\* RwLock<()>: the guards out, and the poison flag
Unlocked == [readers |-> {}, writer |-> 0, poisoned |-> FALSE]

\* the parent_table of a block number no Block has been constructed for
NoTable == "none"

\* what the history records of a page: the file Block::new found, whether a
\* load has materialized the page since, the entries the last released write
\* handle left
NoHistory == [found |-> None, loaded |-> FALSE, released |-> None]

\* ------------------------------------------------------------ BlockContents
Position(internal, hash) ==
    LET hits == {i \in 1..Len(internal) : internal[i][1] = hash}
    IN IF hits = {} THEN 0 ELSE CHOOSE i \in hits : \A j \in hits : i <= j

BlockContents_get_tuple(internal, hash) ==
    LET pos == Position(internal, hash)
    IN IF pos = 0 THEN NoTuple ELSE SomeTuple(internal[pos][2])

\* a variant that appends whether or not the hash is present
BlockContents_insert_tuple_appending(internal, hash, tuple) ==
    [internal |-> Append(internal, <<hash, tuple>>),
     ret |-> BlockContents_get_tuple(internal, hash)]

BlockContents_insert_tuple(internal, hash, tuple) ==
    LET pos == Position(internal, hash)
    IN IF pos # 0
       THEN [internal |-> [internal EXCEPT ![pos] = <<hash, tuple>>],
             ret |-> SomeTuple(internal[pos][2])]
       ELSE [internal |-> Append(internal, <<hash, tuple>>), ret |-> NoTuple]

BlockContents_remove_tuple(internal, hash) ==
    LET pos == Position(internal, hash)
    IN IF pos # 0
       THEN [internal |-> SubSeq(internal, 1, pos - 1) \o SubSeq(internal, pos + 1, Len(internal)),
             ret |-> SomeTuple(internal[pos][2])]
       ELSE [internal |-> internal, ret |-> NoTuple]

BlockContents_take_all_with_key(internal) == [internal |-> <<>>, ret |-> internal]

\* a variant that starts after the first entry
BlockContents_all_with_key_rest(internal) ==
    IF internal = <<>> THEN <<>> ELSE Tail(internal)

BlockContents_all_with_key(internal) == internal

\* ----------------------------------------------------------------- InUseMut
\* Each gives the page's entry list and cached len after the call, and the result.
\* a variant that counts every insert, replacing or not
InUseMut_insert_tuple_counting(internal, len, hash, tuple) ==
    LET r == BlockContents_insert_tuple(internal, hash, tuple)
    IN [internal |-> r.internal, len |-> len + 1, ret |-> r.ret]

\* a variant that never counts an insert
InUseMut_insert_tuple_uncounted(internal, len, hash, tuple) ==
    LET r == BlockContents_insert_tuple(internal, hash, tuple)
    IN [internal |-> r.internal, len |-> len, ret |-> r.ret]

InUseMut_insert_tuple(internal, len, hash, tuple) ==
    LET r == BlockContents_insert_tuple(internal, hash, tuple)
    IN [internal |-> r.internal,
        len |-> IF r.ret.some THEN len ELSE len + 1,
        ret |-> r.ret]

InUseMut_remove_tuple(internal, len, hash) ==
    LET r == BlockContents_remove_tuple(internal, hash)
    IN [internal |-> r.internal,
        len |-> IF r.ret.some THEN len - 1 ELSE len,
        ret |-> r.ret]

\* a variant that hands the entries out and leaves them in the page
InUseMut_take_all_with_key_kept(internal, len) ==
    [internal |-> internal, len |-> 0, ret |-> internal]

InUseMut_take_all_with_key(internal, len) ==
    LET r == BlockContents_take_all_with_key(internal)
    IN [internal |-> r.internal, len |-> 0, ret |-> r.ret]

\* ------------------------------------------------------- threads on a page
\* A thread is at a line `at` of the call `op`; `unwinding` while it panics.
At(op, at) == [op |-> op, at |-> at, unwinding |-> FALSE]
Idle == At("idle", "idle")
Dead == At("dead", "dead")

SetPc(t, p) == pc' = [pc EXCEPT ![t] = p]

\* where a call goes on returning from Block::load or Block::unload
AfterLoad(p) ==
    IF p.op = "deref" THEN [p EXCEPT !.at = "unwrap"]
    ELSE [p EXCEPT !.at = "holding"]
AfterUnload(p) == [p EXCEPT !.at = "unlock"]

\* a panic: the stack unwinds, dropping what the frame owns
Panic(t, p) ==
    IF p.op = "deref"
    THEN \* the caller's InUse is dropped: Drop for InUse runs
         /\ SetPc(t, [op |-> "drop_read", at |-> "dec", unwinding |-> TRUE])
         /\ UNCHANGED usage
    ELSE \* inside try_get_contents(_mut): only the guard exists and is dropped;
         \* a write guard dropped while panicking poisons the lock
         /\ SetPc(t, Dead)
         /\ usage' = [usage EXCEPT ![tblock[t]] =
                         IF p.op = "read"
                         THEN [@ EXCEPT !.readers = @ \ {t}]
                         ELSE [@ EXCEPT !.writer = 0, !.poisoned = TRUE]]

\* a variant that takes the guard out of a PoisonError and carries on
try_get_contents_lock_into_inner(t, b) ==
    /\ pc[t] = Idle
    /\ parent_table[b] # NoTable
    /\ usage[b].writer = 0
    /\ usage' = [usage EXCEPT ![b].readers = @ \cup {t}]
    /\ tblock' = [tblock EXCEPT ![t] = b]
    /\ SetPc(t, At("read", "inc"))
    /\ UNCHANGED <<fs, parent_table, block_contents, block_len, reads, local, storeVars, history>>

\* Block::try_get_contents, line 131: self.usage.read(), Err if poisoned
try_get_contents_lock(t, b) ==
    /\ pc[t] = Idle
    /\ parent_table[b] # NoTable
    /\ usage[b].writer = 0
    /\ usage' = [usage EXCEPT ![b].readers = @ \cup {t}]
    /\ tblock' = [tblock EXCEPT ![t] = b]
    /\ SetPc(t, IF usage[b].poisoned THEN At("read", "err") ELSE At("read", "inc"))
    /\ UNCHANGED <<fs, parent_table, block_contents, block_len, reads, local, storeVars, history>>

\* line 132: self.reads.fetch_add(1)
try_get_contents_inc(t) ==
    /\ pc[t] = At("read", "inc")
    /\ reads' = [reads EXCEPT ![tblock[t]] = @ + 1]
    /\ SetPc(t, At("read", "check"))
    /\ UNCHANGED <<fs, parent_table, block_contents, block_len, usage, tblock, local, storeVars, history>>

\* lines 133-142: load if unmaterialized, else hand out the InUse
try_get_contents_check(t) ==
    /\ pc[t] = At("read", "check")
    /\ SetPc(t, IF block_contents[tblock[t]].some
                THEN At("read", "holding") ELSE At("read", "load"))
    /\ UNCHANGED <<blockVars, tblock, local, storeVars, history>>

\* a variant whose write lock waits for the writer only, not for the readers
try_get_contents_mut_lock_past_readers(t, b) ==
    /\ pc[t] = Idle
    /\ parent_table[b] # NoTable
    /\ usage[b].writer = 0
    /\ usage' = [usage EXCEPT ![b].writer = t]
    /\ tblock' = [tblock EXCEPT ![t] = b]
    /\ SetPc(t, IF usage[b].poisoned THEN At("write", "err") ELSE At("write", "check"))
    /\ UNCHANGED <<fs, parent_table, block_contents, block_len, reads, local, storeVars, history>>

\* Block::try_get_contents_mut, line 152: self.usage.write(), Err if poisoned
try_get_contents_mut_lock(t, b) ==
    /\ pc[t] = Idle
    /\ parent_table[b] # NoTable
    /\ usage[b].readers = {} /\ usage[b].writer = 0
    /\ usage' = [usage EXCEPT ![b].writer = t]
    /\ tblock' = [tblock EXCEPT ![t] = b]
    /\ SetPc(t, IF usage[b].poisoned THEN At("write", "err") ELSE At("write", "check"))
    /\ UNCHANGED <<fs, parent_table, block_contents, block_len, reads, local, storeVars, history>>

\* lines 131 and 152, the `?`: From<PoisonError> drops the guard the error
\* carries, and the call returns Err(ReadInUseError) / Err(WriteInUseError)
from_PoisonError(t) ==
    /\ pc[t].at = "err"
    /\ usage' = [usage EXCEPT ![tblock[t]] =
                    IF pc[t].op = "read"
                    THEN [@ EXCEPT !.readers = @ \ {t}]
                    ELSE [@ EXCEPT !.writer = 0]]
    /\ SetPc(t, Idle)
    /\ UNCHANGED <<fs, parent_table, block_contents, block_len, reads, tblock, local, storeVars, history>>

\* lines 153-163
try_get_contents_mut_check(t) ==
    /\ pc[t] = At("write", "check")
    /\ SetPc(t, IF block_contents[tblock[t]].some
                THEN At("write", "holding") ELSE At("write", "load"))
    /\ UNCHANGED <<blockVars, tblock, local, storeVars, history>>

\* Block::load, lines 183-215: open the file and read its lines
load_read(t) ==
    /\ pc[t].at = "load"
    /\ IF file_name(tblock[t]) \in DOMAIN fs
       THEN /\ local' = [local EXCEPT ![t] = ParseLines(fs[file_name(tblock[t])])]
            /\ SetPc(t, [pc[t] EXCEPT !.at = "set"])
            /\ UNCHANGED usage
       ELSE /\ Panic(t, pc[t])     \* expect("Could not open file")
            /\ UNCHANGED local
    /\ UNCHANGED <<fs, parent_table, block_contents, block_len, reads, tblock, storeVars, history>>

\* Block::load, lines 217-226: publish the contents and the cached len
load_set(t) ==
    /\ pc[t].at = "set"
    /\ block_contents' = [block_contents EXCEPT ![tblock[t]] = Some(local[t])]
    /\ block_len' = [block_len EXCEPT ![tblock[t]] = Len(local[t])]
    /\ local' = [local EXCEPT ![t] = <<>>]
    /\ history' = [history EXCEPT ![tblock[t]].loaded = TRUE]
    /\ SetPc(t, AfterLoad(pc[t]))
    /\ UNCHANGED <<fs, parent_table, usage, reads, tblock, storeVars>>

\* Deref for InUse, line 291: the is_none test
deref_check(t) ==
    /\ pc[t] = At("read", "holding")
    /\ SetPc(t, IF block_contents[tblock[t]].some
                THEN At("deref", "unwrap") ELSE At("deref", "load"))
    /\ UNCHANGED <<blockVars, tblock, local, storeVars, history>>

\* Deref for InUse, line 296: block_contents.as_ref().unwrap()
deref_unwrap(t) ==
    /\ pc[t] = At("deref", "unwrap")
    /\ IF block_contents[tblock[t]].some
       THEN SetPc(t, At("read", "holding")) /\ UNCHANGED usage
       ELSE Panic(t, pc[t])
    /\ UNCHANGED <<fs, parent_table, block_contents, block_len, reads, tblock, local, storeVars, history>>

\* Drop for InUse, line 302: self.parent.reads.fetch_sub(1) == 1
drop_InUse(t) ==
    /\ \/ pc[t] = At("read", "holding")
       \/ pc[t].op = "drop_read" /\ pc[t].at = "dec"
    /\ reads' = [reads EXCEPT ![tblock[t]] = @ - 1]
    /\ SetPc(t, [op |-> "drop_read",
                 at |-> IF reads[tblock[t]] = 1 THEN "take" ELSE "unlock",
                 unwinding |-> pc[t].unwinding])
    /\ UNCHANGED <<fs, parent_table, block_contents, block_len, usage, tblock, local, storeVars, history>>

\* Drop for InUseMut, line 345
drop_InUseMut(t) ==
    /\ pc[t] = At("write", "holding")
    /\ SetPc(t, At("drop_write", "take"))
    /\ UNCHANGED <<blockVars, tblock, local, storeVars, history>>

\* a variant that copies the contents out and leaves them in place
unload_take_copy(t) ==
    /\ pc[t].at = "take"
    /\ local' = [local EXCEPT ![t] = block_contents[tblock[t]].internal]
    /\ SetPc(t, IF block_contents[tblock[t]].some
                THEN [pc[t] EXCEPT !.at = "remove"] ELSE AfterUnload(pc[t]))
    /\ UNCHANGED <<fs, parent_table, block_contents, block_len, usage, reads, tblock, storeVars, history>>

\* Block::unload, line 233: mem::replace(&mut block_contents, None)
unload_take(t) ==
    /\ pc[t].at = "take"
    /\ block_contents' = [block_contents EXCEPT ![tblock[t]] = None]
    /\ local' = [local EXCEPT ![t] = block_contents[tblock[t]].internal]
    /\ SetPc(t, IF block_contents[tblock[t]].some
                THEN [pc[t] EXCEPT !.at = "remove"] ELSE AfterUnload(pc[t]))
    /\ UNCHANGED <<fs, parent_table, block_len, usage, reads, tblock, storeVars, history>>

\* the file without the path p
RemovePath(files, p) == [q \in DOMAIN files \ {p} |-> files[q]]

\* Block::unload, line 241: remove_file, its result ignored
unload_remove(t) ==
    /\ pc[t].at = "remove"
    /\ fs' = RemovePath(fs, file_name(tblock[t]))
    /\ SetPc(t, [pc[t] EXCEPT !.at = "create"])
    /\ UNCHANGED <<parent_table, block_contents, block_len, usage, reads, tblock, local, storeVars, history>>

\* Block::unload, line 243: File::create
unload_create(t) ==
    /\ pc[t].at = "create"
    /\ fs' = (file_name(tblock[t]) :> <<>>) @@ fs
    /\ SetPc(t, [pc[t] EXCEPT !.at = "write"])
    /\ UNCHANGED <<parent_table, block_contents, block_len, usage, reads, tblock, local, storeVars, history>>

\* the file a flush of `internal` leaves at path p
Flushed(files, p, internal) == (p :> SerializeEntries(internal)) @@ files

\* Block::unload, lines 246-259: the buffered lines, written by flush()
unload_write(t) ==
    /\ pc[t].at = "write"
    /\ fs' = Flushed(fs, file_name(tblock[t]), local[t])
    /\ SetPc(t, AfterUnload(pc[t]))
    /\ UNCHANGED <<parent_table, block_contents, block_len, usage, reads, tblock, local, storeVars, history>>

\* the guard field of the handle is dropped after Drop::drop returns; a
\* write guard dropped while panicking poisons the lock
unlock(t) ==
    /\ pc[t].at = "unlock"
    /\ usage' = [usage EXCEPT ![tblock[t]] =
                    IF pc[t].op = "drop_read"
                    THEN [@ EXCEPT !.readers = @ \ {t}]
                    ELSE [@ EXCEPT !.writer = 0, !.poisoned = @ \/ pc[t].unwinding]]
    /\ local' = [local EXCEPT ![t] = <<>>]
    /\ history' = IF pc[t].op = "drop_write"
                  THEN [history EXCEPT ![tblock[t]].released = Some(local[t])]
                  ELSE history
    /\ SetPc(t, IF pc[t].unwinding THEN Dead ELSE Idle)
    /\ UNCHANGED <<fs, parent_table, block_contents, block_len, reads, tblock, storeVars>>

\* the hashes and tuples the page-level callers pass in
BlockTuples ==
    {<<<<"Int", 0>>, <<"Text", 0>>>>, <<<<"Int", 1>>, <<"Text", 0>>>>, <<<<"Int", 1>>, <<"Text", 1>>>>}
BlockHashes == {hash_tuple(tuple) : tuple \in BlockTuples}

\* DerefMut for InUseMut, line 359: unwrap; a None panics and the handle drops
WriteCall(t, r) ==
    /\ pc[t] = At("write", "holding")
    /\ IF block_contents[tblock[t]].some
       THEN /\ block_contents' = [block_contents EXCEPT ![tblock[t]] = Some(r.internal)]
            /\ block_len' = [block_len EXCEPT ![tblock[t]] = r.len]
            /\ UNCHANGED pc
       ELSE /\ SetPc(t, [op |-> "drop_write", at |-> "take", unwinding |-> TRUE])
            /\ UNCHANGED <<block_contents, block_len>>
    /\ UNCHANGED <<fs, parent_table, usage, reads, tblock, local, storeVars, history>>

\* InUseMut::insert_tuple through a held write handle
write_insert_tuple(t, hash, tuple) ==
    LET b == tblock[t]
        r == InUseMut_insert_tuple(block_contents[b].internal, block_len[b], hash, tuple)
    IN WriteCall(t, r)

\* InUseMut::remove_tuple through a held write handle
write_remove_tuple(t, hash) ==
    LET b == tblock[t]
    IN WriteCall(t, InUseMut_remove_tuple(block_contents[b].internal, block_len[b], hash))

\* InUseMut::take_all_with_key through a held write handle
write_take_all_with_key(t) ==
    LET b == tblock[t]
    IN WriteCall(t, InUseMut_take_all_with_key(block_contents[b].internal, block_len[b]))

\* IndexMut for BlockContents through a held write handle, lines 359 and 455:
\* get_tuple_mut(index).unwrap(); a None panics and the handle drops
index_mut(t, hash) ==
    /\ pc[t] = At("write", "holding")
    /\ IF block_contents[tblock[t]].some
          /\ Position(block_contents[tblock[t]].internal, hash) # 0
       THEN UNCHANGED pc
       ELSE SetPc(t, [op |-> "drop_write", at |-> "take", unwinding |-> TRUE])
    /\ UNCHANGED <<blockVars, tblock, local, storeVars, history>>

\* ------------------------------------------- the page under several threads
Blocks == {0}

\* a file found at construction: none (created empty) or one left by an earlier run
InitialFiles ==
    {<<>>} \cup {SerializeEntries(<<<<hash_tuple(tuple), tuple>>>>) :
                    tuple \in {u \in BlockTuples : u[1][2] = 1 /\ u[2][2] = 0}}

NoCall == [name |-> "none", arg |-> <<>>]
NoRet == [kind |-> "none", val |-> NoTuple, positions |-> {}]

\* a variant that creates the file whether or not one exists
Block_new_truncating(b, table) ==
    /\ parent_table[b] = NoTable
    /\ parent_table' = [parent_table EXCEPT ![b] = table]
    /\ block_contents' = [block_contents EXCEPT ![b] = None]
    /\ block_len' = [block_len EXCEPT ![b] = 0]
    /\ usage' = [usage EXCEPT ![b] = Unlocked]
    /\ reads' = [reads EXCEPT ![b] = 0]
    /\ fs' = (<<table, b>> :> <<>>) @@ fs
    /\ history' = [history EXCEPT ![b].found =
                      IF <<table, b>> \in DOMAIN fs THEN Some(fs[<<table, b>>]) ELSE None]
    /\ UNCHANGED <<threadVars, storeVars>>

\* Block::new, lines 90-106, with initialize_file, lines 108-123: the file is
\* created (empty) only if file_name() does not exist
Block_new(b, table) ==
    /\ parent_table[b] = NoTable
    /\ parent_table' = [parent_table EXCEPT ![b] = table]
    /\ block_contents' = [block_contents EXCEPT ![b] = None]
    /\ block_len' = [block_len EXCEPT ![b] = 0]
    /\ usage' = [usage EXCEPT ![b] = Unlocked]
    /\ reads' = [reads EXCEPT ![b] = 0]
    /\ fs' = IF <<table, b>> \in DOMAIN fs THEN fs ELSE (<<table, b>> :> <<>>) @@ fs
    /\ history' = [history EXCEPT ![b].found =
                      IF <<table, b>> \in DOMAIN fs THEN Some(fs[<<table, b>>]) ELSE None]
    /\ UNCHANGED <<threadVars, storeVars>>

\* the storage root as an earlier run left it, no Block constructed yet
InitBlock ==
    /\ parent_table = [b \in Blocks |-> NoTable]
    /\ fs \in {<<>>} \cup [{<<"rel", b>> : b \in Blocks} -> InitialFiles]
    /\ block_contents = [b \in Blocks |-> None]
    /\ block_len = [b \in Blocks |-> 0]
    /\ usage = [b \in Blocks |-> Unlocked]
    /\ reads = [b \in Blocks |-> 0]
    /\ pc = [t \in Threads |-> Idle]
    /\ tblock = [t \in Threads |-> 0]
    /\ local = [t \in Threads |-> <<>>]
    /\ storage_len = 0
    /\ identifier = "rel"
    /\ global_depth = 0
    /\ slots = <<>>
    /\ call = NoCall
    /\ ret = NoRet
    /\ history = [b \in Blocks |-> NoHistory]

NextBlock ==
    \/ \E b \in Blocks : Block_new(b, "rel")
    \/ \E t \in Threads :
        \/ \E b \in Blocks : try_get_contents_lock(t, b)
        \/ try_get_contents_inc(t)
        \/ try_get_contents_check(t)
        \/ \E b \in Blocks : try_get_contents_mut_lock(t, b)
        \/ from_PoisonError(t)
        \/ try_get_contents_mut_check(t)
        \/ load_read(t)
        \/ load_set(t)
        \/ deref_check(t)
        \/ deref_unwrap(t)
        \/ drop_InUse(t)
        \/ drop_InUseMut(t)
        \/ unload_take(t)
        \/ unload_remove(t)
        \/ unload_create(t)
        \/ unload_write(t)
        \/ unlock(t)
        \/ \E tuple \in BlockTuples : write_insert_tuple(t, hash_tuple(tuple), tuple)
        \/ \E hash \in BlockHashes : write_remove_tuple(t, hash)
        \/ write_take_all_with_key(t)
        \/ \E hash \in BlockHashes : index_mut(t, hash)

SpecBlock == InitBlock /\ [][NextBlock]_vars

\* ------------------------------------------------------ handles outstanding
\* An InUse exists from its construction (line 138) until its drop has
\* released the guard; likewise an InUseMut (line 159).
ReadHandle(t, b) ==
    /\ tblock[t] = b
    /\ \/ pc[t].op = "read" /\ pc[t].at = "holding"
       \/ pc[t].op \in {"deref", "drop_read"}

WriteHandle(t, b) ==
    /\ tblock[t] = b
    /\ \/ pc[t].op = "write" /\ pc[t].at = "holding"
       \/ pc[t].op = "drop_write"

\* a read handle its owner still holds: constructed, and its drop not begun
ReadHeld(t, b) ==
    /\ tblock[t] = b
    /\ \/ pc[t].op = "read" /\ pc[t].at = "holding"
       \/ pc[t].op = "deref"

\* C7: while a write handle is outstanding on a page, no other handle, read
\* or write, is outstanding on that page (read handles may be shared).
C7_WriterExcludesAll ==
    \A b \in Blocks : \A t \in Threads :
        WriteHandle(t, b) =>
            \A u \in Threads \ {t} : ~ReadHandle(u, b) /\ ~WriteHandle(u, b)

C7_Witness ==
    \E b \in Blocks : \E t, u \in Threads :
        /\ t # u
        /\ ReadHandle(t, b) /\ ReadHandle(u, b)
        /\ block_contents[b].some /\ block_contents[b].internal # <<>>

\* C8: the drop of a write handle finds the page materialized, and when it
\* has run unload and is about to release the guard, the page is
\* unmaterialized and its file holds the lines of the entry list unload took
\* from the handle, in order, whatever the live-reader count.
C8_WriteReleaseFlushes ==
    \A t \in Threads :
        /\ (pc[t].op = "drop_write" /\ pc[t].at = "take") =>
               block_contents[tblock[t]].some
        /\ (pc[t].op = "drop_write" /\ pc[t].at = "unlock") =>
               /\ ~block_contents[tblock[t]].some
               /\ file_name(tblock[t]) \in DOMAIN fs
               /\ fs[file_name(tblock[t])] = [i \in 1..Len(local[t]) |-> WriteLine(local[t][i])]

C8_Witness ==
    \E t \in Threads :
        /\ pc[t].op = "drop_write" /\ pc[t].at = "unlock"
        /\ Len(local[t]) = 2
        /\ reads[tblock[t]] > 0

\* C9: while a read handle on a page is held, the page stays materialized
\* (a release flushes and discards only when it leaves no read handle).
C9_HeldReadKeepsPage ==
    \A b \in Blocks :
        (\E t \in Threads : ReadHeld(t, b)) => block_contents[b].some

\* a call on page b is in progress or a handle on it exists: the thread has
\* taken the guard of b and not yet released it
Guarded(t, b) == tblock[t] = b /\ pc[t].op \notin {"idle", "dead"}

\* C10: a materialized page has at least one outstanding read or write
\* handle (counting every thread that holds the page's guard), and once no
\* thread holds a handle or is inside a call the page is unmaterialized.
C10_MaterializedHasHandle ==
    \A b \in Blocks :
        /\ block_contents[b].some => \E t \in Threads : Guarded(t, b)
        /\ (\A t \in Threads : pc[t].op \in {"idle", "dead"}) => ~block_contents[b].some

\* C11: a read handle on a page, granted after a write handle was released,
\* dereferences to exactly the entry list the last released write handle
\* left (same hashes, same tuples, same order).
C11_ReadSeesLastWrite ==
    \A t \in Threads :
        LET b == tblock[t]
        IN (/\ pc[t] = At("deref", "unwrap")
            /\ block_contents[b].some
            /\ history[b].released.some)
               => block_contents[b].internal = history[b].released.internal

\* C17: an acquisition that finds the page lock poisoned returns Err
\* (ReadInUseError from try_get_contents, WriteInUseError from
\* try_get_contents_mut): it goes nowhere but to the error return, and from
\* the lock to the return it grants no handle, keeps no guard, and leaves
\* the live-reader count, the contents, the cached len, the page file and
\* the poison as they were.
C17_PoisonedAcquisitionFails ==
    [][\A t \in Threads :
          /\ (pc[t] = Idle /\ pc'[t] # Idle /\ usage[tblock'[t]].poisoned) =>
                 /\ pc'[t].at = "err"
                 /\ reads' = reads /\ block_contents' = block_contents
                 /\ block_len' = block_len /\ fs' = fs
          /\ (pc[t].at = "err" /\ pc'[t] # pc[t]) =>
                 /\ pc'[t] = Idle
                 /\ t \notin usage'[tblock[t]].readers /\ usage'[tblock[t]].writer # t
                 /\ usage'[tblock[t]].poisoned
                 /\ reads' = reads /\ block_contents' = block_contents
                 /\ block_len' = block_len /\ fs' = fs]_vars

C17_Witness ==
    \E t, u \in Threads :
        /\ pc[t] = At("read", "err") /\ pc[u] = Dead
        /\ usage[tblock[t]].poisoned
        /\ fs[file_name(tblock[t])] # <<>>

\* the entries of the file Block::new found (none if it created the file)
FoundEntries(b) ==
    IF history[b].found.some THEN ParseLines(history[b].found.internal) ELSE <<>>

\* C18: Block::new leaves a file that exists as it is and creates an empty
\* one only when none exists, and until the page has been materialized once
\* every load reads, and publishes, exactly the entries of that file.
C18_NewReusesFile ==
    [][/\ \A b \in Blocks :
              (parent_table[b] = NoTable /\ parent_table'[b] # NoTable) =>
                  LET p == <<parent_table'[b], b>>
                  IN IF p \in DOMAIN fs THEN fs' = fs
                     ELSE fs' = (p :> <<>>) @@ fs
       /\ \A t \in Threads :
              LET b == tblock[t]
              IN ~history[b].loaded =>
                     /\ (pc[t].at = "load" /\ pc'[t] # pc[t]) =>
                            pc'[t].at = "set" /\ local'[t] = FoundEntries(b)
                     /\ (pc[t].at = "set" /\ pc'[t] # pc[t]) =>
                            block_contents'[b] = Some(FoundEntries(b))]_vars

C18_Witness ==
    \E t \in Threads :
        /\ pc[t] = At("read", "holding")
        /\ history[tblock[t]].found.some
        /\ history[tblock[t]].loaded
        /\ block_contents[tblock[t]] = Some(FoundEntries(tblock[t]))
        /\ FoundEntries(tblock[t]) # <<>>

\* C19: the page goes from unmaterialized to materialized by one physical
\* load: at most one thread has read the page file and not yet published it,
\* and none has while the page is materialized.
C19_SingleLoader ==
    \A b \in Blocks :
        LET loaders == {t \in Threads : tblock[t] = b /\ pc[t].at = "set"}
        IN /\ Cardinality(loaders) <= 1
           /\ loaders # {} => ~block_contents[b].some

\* an eviction: the unload a read handle runs after its decrement to zero
Evicting(t, b) ==
    /\ tblock[t] = b
    /\ pc[t].op = "drop_read"
    /\ pc[t].at \in {"take", "remove", "create", "write"}

\* C20: while an eviction of a page is in progress, try_get_contents neither
\* loads the page nor returns a handle on it.
C20_NoGrantDuringEviction ==
    [][\A t \in Threads :
          (pc'[t].op = "read" /\ pc'[t] # pc[t] /\ pc'[t].at \in {"set", "holding"}) =>
              ~\E u \in Threads \ {t} : Evicting(u, tblock'[t])]_vars

\* ------------------------------------------------ the page under one owner
\* One thread alone acquires, uses and releases handles on the page: every
\* flush is followed, at the next acquisition, by a load of what it wrote.
Owner == 1

BlockEntries == {<<hash_tuple(tuple), tuple>> : tuple \in BlockTuples}

\* the entry lists with pairwise distinct hashes an earlier run may have flushed
EntryLists ==
    {<<>>} \cup {<<e>> : e \in BlockEntries}
           \cup {<<x[1], x[2]>> : x \in {y \in BlockEntries \X BlockEntries : y[1][1] # y[2][1]}}

InitPage ==
    /\ parent_table = [b \in Blocks |-> NoTable]
    /\ fs \in {<<>>} \cup [{<<"rel", b>> : b \in Blocks} ->
                              {SerializeEntries(internal) : internal \in EntryLists}]
    /\ block_contents = [b \in Blocks |-> None]
    /\ block_len = [b \in Blocks |-> 0]
    /\ usage = [b \in Blocks |-> Unlocked]
    /\ reads = [b \in Blocks |-> 0]
    /\ pc = [t \in Threads |-> Idle]
    /\ tblock = [t \in Threads |-> 0]
    /\ local = [t \in Threads |-> <<>>]
    /\ storage_len = 0
    /\ identifier = "rel"
    /\ global_depth = 0
    /\ slots = <<>>
    /\ call = NoCall
    /\ ret = NoRet
    /\ history = [b \in Blocks |-> NoHistory]

NextPage ==
    \/ \E b \in Blocks : Block_new(b, "rel")
    \/ \E b \in Blocks : try_get_contents_lock(Owner, b)
    \/ try_get_contents_inc(Owner)
    \/ try_get_contents_check(Owner)
    \/ \E b \in Blocks : try_get_contents_mut_lock(Owner, b)
    \/ try_get_contents_mut_check(Owner)
    \/ load_read(Owner)
    \/ load_set(Owner)
    \/ deref_check(Owner)
    \/ deref_unwrap(Owner)
    \/ drop_InUse(Owner)
    \/ drop_InUseMut(Owner)
    \/ unload_take(Owner)
    \/ unload_remove(Owner)
    \/ unload_create(Owner)
    \/ unload_write(Owner)
    \/ unlock(Owner)
    \/ \E tuple \in BlockTuples : write_insert_tuple(Owner, hash_tuple(tuple), tuple)
    \/ \E hash \in BlockHashes : write_remove_tuple(Owner, hash)
    \/ write_take_all_with_key(Owner)
    \/ \E hash \in BlockHashes : index_mut(Owner, hash)

SpecPage == InitPage /\ [][NextPage]_vars

RECURSIVE Pow2(_)
Pow2(n) == IF n = 0 THEN 1 ELSE 2 * Pow2(n - 1)

\* the bit at position l of a hash, 0-indexed from the low end
Bit(hash, l) == (hash \div Pow2(l)) % 2

\* Locate: the gd low-order bits of the hash index the slot array (0-based)
Locate(gd, hash) == hash % Pow2(gd)

Slot(block, local_depth) == [block |-> block, local_depth |-> local_depth]

\* the directory with every page's entry list as its file loads
DirState ==
    [gd |-> global_depth,
     slots |-> slots,
     ents |-> [b \in DOMAIN block_len |-> ParseLines(fs[file_name(b)])],
     lens |-> block_len,
     touched |-> {}]

LocalDepth(S, b) ==
    S.slots[CHOOSE i \in 1..Len(S.slots) : S.slots[i].block = b].local_depth

\* insert_tuple of each entry of a sequence, in order, through a write handle
RECURSIVE InsertAll(_, _)
InsertAll(page, entries) ==
    IF entries = <<>> THEN page
    ELSE LET r == InUseMut_insert_tuple(page.internal, page.len, Head(entries)[1], Head(entries)[2])
         IN InsertAll([internal |-> r.internal, len |-> r.len], Tail(entries))

\* a variant that puts the copy of each slot next to it
Double_adjacent(S) ==
    [S EXCEPT !.gd = @ + 1,
              !.slots = [i \in 1..(2 * Len(S.slots)) |-> S.slots[(i + 1) \div 2]]]

\* step 1 of a split: double the directory
Double(S) == [S EXCEPT !.gd = @ + 1, !.slots = @ \o @]

\* steps 1-3 of a split of page b
SplitPage(S, b) ==
    LET l == LocalDepth(S, b)
        S1 == IF l = S.gd THEN Double(S) ELSE S
        new == Cardinality(DOMAIN S.lens)
        drained == InUseMut_take_all_with_key(S.ents[b], S.lens[b])
        stay == SelectSeq(drained.ret, LAMBDA e : Bit(e[1], l) = 0)
        move == SelectSeq(drained.ret, LAMBDA e : Bit(e[1], l) = 1)
        pageB == InsertAll([internal |-> drained.internal, len |-> drained.len], stay)
        pageN == InsertAll([internal |-> <<>>, len |-> 0], move)
    IN [gd |-> S1.gd,
        slots |-> [i \in 1..Len(S1.slots) |->
                      IF S1.slots[i].block = b
                      THEN Slot(IF Bit(i - 1, l) = 1 THEN new ELSE b, l + 1)
                      ELSE S1.slots[i]],
        ents |-> (new :> pageN.internal) @@ [S.ents EXCEPT ![b] = pageB.internal],
        lens |-> (new :> pageN.len) @@ [S.lens EXCEPT ![b] = pageB.len],
        touched |-> S.touched \cup {b, new}]

\* step 4: split again while a resulting page is over capacity
RECURSIVE Split(_, _)
Split(S, b) ==
    LET S2 == SplitPage(S, b)
        new == Cardinality(DOMAIN S.lens)
    IN IF S2.lens[b] > BucketSize THEN Split(S2, b)
       ELSE IF S2.lens[new] > BucketSize THEN Split(S2, new)
       ELSE S2

\* Insert(hash, tuple): locate, insert through a write handle, split if over capacity
BlockDirectory_insert(S, tuple, hash) ==
    LET b == S.slots[Locate(S.gd, hash) + 1].block
        r == InUseMut_insert_tuple(S.ents[b], S.lens[b], hash, tuple)
        S1 == [S EXCEPT !.ents[b] = r.internal, !.lens[b] = r.len, !.touched = @ \cup {b}]
    IN [state |-> IF r.len > BucketSize THEN Split(S1, b) ELSE S1, ret |-> r.ret]

\* the page that holds a hash, and the tuple stored under it, if any
OwnerIn(gd, sl, hash) == sl[Locate(gd, hash) + 1].block
StoredIn(files, tables, gd, sl, hash) ==
    LET b == OwnerIn(gd, sl, hash)
    IN BlockContents_get_tuple(ParseLines(files[<<tables[b], b>>]), hash)

OwnerOf(hash) == OwnerIn(global_depth, slots, hash)
StoredTuple(hash) == StoredIn(fs, parent_table, global_depth, slots, hash)

\* ------------------------------------------------------------ TupleStorage
PrimaryKeys == {get_primary_key_of_tuple(tuple) : tuple \in Tuples}

Ok(option) == [kind |-> "Ok", val |-> option, positions |-> {}]
Panicked == [kind |-> "panic", val |-> NoTuple, positions |-> {}]
IncorrectTypes(positions) == [kind |-> "IncorrectTypes", val |-> NoTuple, positions |-> positions]
NotFound == [kind |-> "NotFound", val |-> NoTuple, positions |-> {}]

\* every write handle the directory took has been dropped: each page it
\* touched is flushed and discarded
Publish(S) ==
    LET blocks == DOMAIN S.lens
        table == [b \in blocks |-> IF b \in DOMAIN parent_table THEN parent_table[b] ELSE identifier]
    IN /\ parent_table' = table
       /\ fs' = [p \in DOMAIN fs \cup {<<table[b], b>> : b \in blocks} |->
                    IF \E b \in S.touched : p = <<table[b], b>>
                    THEN SerializeEntries(S.ents[p[2]])
                    ELSE fs[p]]
       /\ block_contents' = [b \in blocks |-> None]
       /\ block_len' = S.lens
       /\ usage' = [b \in blocks |-> Unlocked]
       /\ reads' = [b \in blocks |-> IF b \in DOMAIN reads THEN reads[b] ELSE 0]
       /\ global_depth' = S.gd
       /\ slots' = S.slots

\* get_contents_mut on a page whose lock is poisoned or whose file cannot be
\* opened panics (block.rs 147, 188); the write guard dropped by the panic
\* in load poisons the lock
CannotOpen(b) == usage[b].poisoned \/ file_name(b) \notin DOMAIN fs

\* TupleStorage::insert, lines 72-75
TupleStorage_insert(tuple) ==
    LET b == OwnerOf(hash_tuple(tuple))
    IN /\ call' = [name |-> "insert", arg |-> tuple]
       /\ UNCHANGED <<storage_len, identifier>>
       /\ IF CannotOpen(b)
          THEN /\ ret' = Panicked
               /\ usage' = [usage EXCEPT ![b].poisoned = TRUE]
               /\ UNCHANGED <<fs, parent_table, block_contents, block_len, reads,
                              global_depth, slots>>
          ELSE LET r == BlockDirectory_insert(DirState, tuple, hash_tuple(tuple))
               IN Publish(r.state) /\ ret' = Ok(r.ret)

\* ScanAll: the distinct pages, each once, in the order of their first slot
DistinctPages(sl) ==
    LET F[i \in 0..Len(sl)] ==
            IF i = 0 THEN <<>>
            ELSE IF \E j \in 1..Len(F[i - 1]) : F[i - 1][j] = sl[i].block
                 THEN F[i - 1]
                 ELSE Append(F[i - 1], sl[i].block)
    IN F[Len(sl)]

\* ScanAll: all_with_key of each page of a sequence, through a read handle
RECURSIVE ScanPages(_, _)
ScanPages(S, pages) ==
    IF pages = <<>> THEN <<>>
    ELSE BlockContents_all_with_key(S.ents[Head(pages)]) \o ScanPages(S, Tail(pages))

BlockDirectory_scan_all(S) == ScanPages(S, DistinctPages(S.slots))

Scanned(pairs) == [kind |-> "Scan", val |-> pairs, positions |-> {}]

\* TupleStorage::all_tuples, lines 83-85, consumed to its end: every page is
\* loaded under a read handle and, that handle being the only one, flushed
\* and discarded at its release
TupleStorage_all_tuples ==
    LET pages == DistinctPages(slots)
        missing == {i \in 1..Len(pages) : CannotOpen(pages[i])}
    IN /\ call' = [name |-> "all_tuples", arg |-> <<>>]
       /\ UNCHANGED <<storage_len, identifier>>
       /\ IF missing # {}
          THEN LET b == pages[CHOOSE i \in missing : \A j \in missing : i <= j]
               IN /\ usage[b].poisoned \/ reads[b] < MaxReads
                  /\ ret' = Panicked
                  /\ reads' = IF usage[b].poisoned THEN reads
                              ELSE [reads EXCEPT ![b] = @ + 1]
                  /\ UNCHANGED <<fs, parent_table, block_contents, block_len, usage,
                                 global_depth, slots>>
          ELSE LET S == DirState
               IN /\ ret' = Scanned(BlockDirectory_scan_all(S))
                  /\ Publish([S EXCEPT !.touched = DOMAIN S.lens,
                                       !.lens = [b \in DOMAIN S.lens |-> Len(S.ents[b])]])

\* the table names a rename may give
Names == {"rel", "ren"}

\* Rename for TupleStorage, lines 115-120: the identifier, and through
\* BlockDirectory::rename the path prefix of every page
TupleStorage_rename(name) ==
    /\ identifier' = name
    /\ parent_table' = [b \in DOMAIN parent_table |-> name]
    /\ call' = [name |-> "rename", arg |-> name]
    /\ ret' = NoRet
    /\ UNCHANGED <<fs, block_contents, block_len, usage, reads, storage_len,
                   global_depth, slots>>

\* TupleStorage::remove, lines 76-78: unimplemented!()
TupleStorage_remove(primary_key) ==
    /\ call' = [name |-> "remove", arg |-> primary_key]
    /\ ret' = Panicked
    /\ UNCHANGED <<blockVars, storage_len, identifier, global_depth, slots>>

\* TupleStorage::find_by_primary, lines 80-82: unimplemented!()
TupleStorage_find_by_primary(primary_key) ==
    /\ call' = [name |-> "find_by_primary", arg |-> primary_key]
    /\ ret' = Panicked
    /\ UNCHANGED <<blockVars, storage_len, identifier, global_depth, slots>>

\* TupleStorage::len
TupleStorage_len == storage_len

\* TupleStorage::new: an empty directory of global depth 0 with one page
InitStore ==
    /\ parent_table = (0 :> "rel")
    /\ fs = (<<"rel", 0>> :> <<>>)
    /\ block_contents = (0 :> None)
    /\ block_len = (0 :> 0)
    /\ usage = (0 :> Unlocked)
    /\ reads = (0 :> 0)
    /\ pc = [t \in Threads |-> Idle]
    /\ tblock = [t \in Threads |-> 0]
    /\ local = [t \in Threads |-> <<>>]
    /\ storage_len = 0
    /\ identifier = "rel"
    /\ global_depth = 0
    /\ slots = <<Slot(0, 0)>>
    /\ call = NoCall
    /\ ret = NoRet
    /\ history = (0 :> NoHistory)

NextStore ==
    \/ \E tuple \in Tuples : TupleStorage_insert(tuple) /\ UNCHANGED <<threadVars, history>>
    \/ \E key \in PrimaryKeys : TupleStorage_remove(key) /\ UNCHANGED <<threadVars, history>>
    \/ \E key \in PrimaryKeys : TupleStorage_find_by_primary(key) /\ UNCHANGED <<threadVars, history>>
    \/ TupleStorage_all_tuples /\ UNCHANGED <<threadVars, history>>

SpecStore == InitStore /\ [][NextStore]_vars

\* the store with renames among its calls
NextRename ==
    \/ NextStore
    \/ \E name \in Names \ {identifier} :
           TupleStorage_rename(name) /\ UNCHANGED <<threadVars, history>>

SpecRename == InitStore /\ [][NextRename]_vars

\* ------------------------------------------------- the store under threads
\* TupleStorage::insert takes &mut self: the calls of several threads are
\* serialized, each one running alone. Thread t inserts a tuple of key t - 1.
Inserters == 1..NumInserters

InserterKey(t) == <<<<"Int", t - 1>>>>

InitThreads ==
    /\ parent_table = (0 :> "rel")
    /\ fs = (<<"rel", 0>> :> <<>>)
    /\ block_contents = (0 :> None)
    /\ block_len = (0 :> 0)
    /\ usage = (0 :> Unlocked)
    /\ reads = (0 :> 0)
    /\ pc = [t \in Inserters |-> Idle]
    /\ tblock = [t \in Inserters |-> 0]
    /\ local = [t \in Inserters |-> <<>>]
    /\ storage_len = 0
    /\ identifier = "rel"
    /\ global_depth = 0
    /\ slots = <<Slot(0, 0)>>
    /\ call = NoCall
    /\ ret = NoRet
    /\ history = (0 :> NoHistory)

thread_insert(t) ==
    /\ pc[t] = Idle
    /\ \E tuple \in Tuples :
        /\ get_primary_key_of_tuple(tuple) = InserterKey(t)
        /\ TupleStorage_insert(tuple)
    /\ SetPc(t, At("insert", "done"))
    /\ UNCHANGED <<tblock, local, history>>

NextThreads == \E t \in Inserters : thread_insert(t)

SpecThreads == InitThreads /\ [][NextThreads]_vars

\* ------------------------------------------------------------------ claims
RECURSIVE SumLens(_, _)
SumLens(lens, blocks) ==
    IF blocks = {} THEN 0
    ELSE LET b == CHOOSE x \in blocks : TRUE
         IN lens[b] + SumLens(lens, blocks \ {b})

\* C1: the count returned by TupleStorage::len equals the sum of the len of
\* all distinct pages (so n inserts of distinct key hashes give len() = n).
C1_CountIsSumOfPageLens ==
    TupleStorage_len = SumLens(block_len, DOMAIN block_len)

\* C2: find_by_primary of the key of a stored tuple returns that tuple.
C2_FindReturnsStored ==
    (call.name = "find_by_primary" /\ StoredTuple(PrimaryKey_hash(call.arg)).some)
        => ret = Ok(StoredTuple(PrimaryKey_hash(call.arg)))

\* C3: an insert under a key hash already stored returns Ok(Some(previous)),
\* leaves the new tuple stored under that hash, and changes neither the
\* store's len nor the owning page (same page, same len).
C3_ReplacingInsert ==
    [][call'.name = "insert" =>
          LET tuple == call'.arg
              h == hash_tuple(tuple)
              previous == StoredTuple(h)
              b == OwnerOf(h)
          IN previous.some =>
                 /\ ret' = Ok(previous)
                 /\ \E i \in 1..Len(fs'[file_name(b)]) :
                        fs'[file_name(b)][i] = WriteLine(<<h, tuple>>)
                 /\ WellTyped(tuple) =>
                        StoredIn(fs', parent_table', global_depth', slots', h) = SomeTuple(tuple)
                 /\ storage_len' = storage_len
                 /\ OwnerIn(global_depth', slots', h) = b
                 /\ block_len'[b] = block_len[b]
                 /\ Len(fs'[file_name(b)]) = Len(fs[file_name(b)])]_vars

C3_Witness ==
    /\ call.name = "insert"
    /\ ret.kind = "Ok" /\ ret.val.some
    /\ ret.val.val # call.arg
    /\ StoredTuple(hash_tuple(call.arg)) = SomeTuple(call.arg)
    /\ global_depth > 0

\* C4: remove of a primary key that is not stored returns the typed
\* "not found" error.
C4_RemoveAbsentIsNotFound ==
    (call.name = "remove" /\ ~StoredTuple(PrimaryKey_hash(call.arg)).some)
        => ret = NotFound

\* C5: insert of a tuple whose values do not match the declared types fails
\* with IncorrectTypes listing the offending positions.
C5_MistypedInsertRejected ==
    (call.name = "insert" /\ ~WellTyped(call.arg))
        => ret = IncorrectTypes(BadPositions(call.arg))

\* C6: once every thread has inserted its tuple (pairwise distinct key
\* hashes), all the tuples are stored and len() is their number.
C6_AllInsertedCounted ==
    (\A t \in Inserters : pc[t].at = "done") =>
        /\ \A t \in Inserters : StoredTuple(PrimaryKey_hash(InserterKey(t))).some
        /\ TupleStorage_len = NumInserters

\* the pages of the directory and the slots (1-based) that reference each
PagesOf(sl) == {sl[i].block : i \in 1..Len(sl)}
SlotsOf(sl, b) == {i \in 1..Len(sl) : sl[i].block = b}

\* C13: the directory has 2^d slots and, for every page, the slots that
\* reference it carry one local depth l <= d, number 2^(d-l), and are exactly
\* the slots whose index agrees with one of them on the l low-order bits.
C13_DirectoryInvariant ==
    /\ Len(slots) = Pow2(global_depth)
    /\ \A b \in PagesOf(slots) :
           LET S == SlotsOf(slots, b)
               i0 == CHOOSE i \in S : TRUE
               l == slots[i0].local_depth
           IN /\ \A i \in S : slots[i].local_depth = l
              /\ l <= global_depth
              /\ Cardinality(S) = Pow2(global_depth - l)
              /\ S = {i \in 1..Len(slots) : (i - 1) % Pow2(l) = (i0 - 1) % Pow2(l)}

C13_Witness ==
    /\ global_depth >= 2
    /\ \E b \in PagesOf(slots) : Cardinality(SlotsOf(slots, b)) = 2
    /\ \E b \in PagesOf(slots) : Cardinality(SlotsOf(slots, b)) = 1

\* C14: after any insert every page holds at most BucketSize entries, in its
\* file and by its cached len, however many low-order bits the hashes share.
C14_PagesWithinCapacity ==
    \A b \in DOMAIN block_len :
        /\ Len(fs[file_name(b)]) <= BucketSize
        /\ block_len[b] <= BucketSize

\* two entries whose hashes agree on the low bit, parted by a repeated split
C14_Witness ==
    /\ call.name = "insert"
    /\ global_depth = BucketSize + 1
    /\ SumLens(block_len, DOMAIN block_len) = BucketSize + 1
    /\ \E b \in DOMAIN block_len : block_len[b] = 0

AllHashes == {hash_tuple(tuple) : tuple \in Tuples}

Occurrences(seq, x) == Cardinality({i \in 1..Len(seq) : seq[i] = x})

\* C15: a full scan returns every stored (hash, tuple) pair exactly once and
\* nothing else, each page being visited once whatever the number of slots
\* that alias it, and a second scan made right after it returns the same
\* multiset of pairs.
C15_ScanYieldsEachOnce ==
    [][(call'.name = "all_tuples" /\ ret'.kind = "Scan") =>
          LET got == ret'.val
              again == BlockDirectory_scan_all(DirState)'
          IN /\ \A h \in AllHashes :
                    LET stored == StoredTuple(h)
                    IN /\ Cardinality({i \in 1..Len(got) : got[i][1] = h})
                           = IF stored.some THEN 1 ELSE 0
                       /\ stored.some => Occurrences(got, <<h, stored.val>>) = 1
             /\ \A i \in 1..Len(got) : got[i][1] \in AllHashes
             /\ Len(again) = Len(got)
             /\ \A i \in 1..Len(got) : Occurrences(again, got[i]) = Occurrences(got, got[i])]_vars

C15_Witness ==
    /\ call.name = "all_tuples" /\ ret.kind = "Scan"
    /\ Len(ret.val) >= 2
    /\ \E b \in PagesOf(slots) : Cardinality(SlotsOf(slots, b)) = 2

\* C16: a rename leaves the store's identifier and every page's path prefix
\* equal to the new name, every tuple stored before it is stored in the file
\* the page loads from after it, and a lookup made after it does not fail.
C16_RenameKeepsTuples ==
    [][/\ call'.name = "rename" =>
              /\ identifier' = call'.arg
              /\ \A b \in DOMAIN parent_table' : parent_table'[b] = call'.arg
              /\ \A h \in AllHashes :
                     StoredTuple(h).some =>
                         /\ <<call'.arg, OwnerOf(h)>> \in DOMAIN fs'
                         /\ BlockContents_get_tuple(ParseLines(fs'[<<call'.arg, OwnerOf(h)>>]), h)
                                = StoredTuple(h)
       /\ (call.name = "rename" /\ call'.name = "find_by_primary") =>
              ret'.kind \in {"Ok", "NotFound"}]_vars

\* the entries a page's file holds, and their hashes in order
EntriesIn(files, tables, b) == ParseLines(files[<<tables[b], b>>])
HashesOf(entries) == [i \in 1..Len(entries) |-> entries[i][1]]

StoreBorrowed(t) ==
    \E u \in Threads \ {t} : pc[u] \notin {Idle, Dead} /\ pc[u].op # "insert"

\* a thread calls insert and waits for the exclusive borrow
insert_call(t, tuple) ==
    /\ pc[t] = Idle
    /\ local' = [local EXCEPT ![t] = tuple]
    /\ SetPc(t, At("insert", "wait"))
    /\ UNCHANGED <<blockVars, tblock, storeVars, history>>

\* the body of TupleStorage::insert, lines 72-75, under the exclusive borrow
insert_run(t) ==
    /\ pc[t] = At("insert", "wait")
    /\ ~StoreBorrowed(t)
    /\ TupleStorage_insert(local[t])
    /\ local' = [local EXCEPT ![t] = <<>>]
    /\ SetPc(t, Idle)
    /\ UNCHANGED <<tblock, history>>

InitShared ==
    /\ parent_table = (0 :> "rel")
    /\ fs = (<<"rel", 0>> :> <<>>)
    /\ block_contents = (0 :> None)
    /\ block_len = (0 :> 0)
    /\ usage = (0 :> Unlocked)
    /\ reads = (0 :> 0)
    /\ pc = [t \in Threads |-> Idle]
    /\ tblock = [t \in Threads |-> 0]
    /\ local = [t \in Threads |-> <<>>]
    /\ storage_len = 0
    /\ identifier = "rel"
    /\ global_depth = 0
    /\ slots = <<Slot(0, 0)>>
    /\ call = NoCall
    /\ ret = NoRet
    /\ history = [b \in 0..HashSpace |-> NoHistory]

\* the last thread scans pages through read handles, the others insert
Scanner == NumThreads

NextShared ==
    \/ \E t \in Threads \ {Scanner} :
        \/ \E tuple \in GoodTuples : insert_call(t, tuple)
        \/ insert_run(t)
    \/ \E t \in {Scanner} :
        \/ \E b \in DOMAIN block_len : try_get_contents_lock(t, b)
        \/ try_get_contents_inc(t)
        \/ try_get_contents_check(t)
        \/ load_read(t)
        \/ load_set(t)
        \/ deref_check(t)
        \/ deref_unwrap(t)
        \/ drop_InUse(t)
        \/ unload_take(t)
        \/ unload_remove(t)
        \/ unload_create(t)
        \/ unload_write(t)
        \/ unlock(t)

SpecShared == InitShared /\ [][NextShared]_vars

\* C22: a thread waiting to insert is kept waiting only by a thread that is
\* on the page the insert needs; threads on other pages do not block it.
C22_BlockedOnlyBySamePage ==
    \A t \in Threads :
        (pc[t] = At("insert", "wait") /\ StoreBorrowed(t)) =>
            \E u \in Threads \ {t} :
                /\ pc[u] \notin {Idle, Dead} /\ pc[u].op # "insert"
                /\ tblock[u] = OwnerOf(hash_tuple(local[t]))

\* no call of a thread is under way on page b: every thread is outside the
\* page's operations or holds a handle it is not using
Settled(b) ==
    \A t \in Threads :
        \/ pc[t] = Idle
        \/ tblock[t] = b /\ pc[t].at = "holding"

\* C23: whenever no operation is under way on a constructed page, its cached
\* len is the number of entries it holds: of the in-memory list while it is
\* materialized, of the lines of its file otherwise.
C23_LenCountsEntries ==
    \A b \in Blocks :
        (/\ parent_table[b] # NoTable
         /\ Settled(b)
         /\ block_contents[b].some \/ file_name(b) \in DOMAIN fs)
            => block_len[b] = IF block_contents[b].some
                              THEN Len(block_contents[b].internal)
                              ELSE Len(EntriesIn(fs, parent_table, b))

\* only readers have been at page b: no write handle was released, none is
\* requested or held, and no thread has panicked
OnlyReaders(b) ==
    /\ parent_table[b] # NoTable
    /\ history[b].found.some
    /\ ~history[b].released.some
    /\ \A t \in Threads : pc[t].op \notin {"write", "drop_write", "dead"}

\* C24: while only readers use a page, every reader dereferences to the
\* entry list the file held before, and once every handle is released the
\* file holds that list again.
C24_ReadsKeepFile ==
    \A b \in Blocks :
        OnlyReaders(b) =>
            /\ \A t \in Threads :
                   (tblock[t] = b /\ pc[t] = At("deref", "unwrap") /\ block_contents[b].some)
                       => block_contents[b].internal = ParseLines(history[b].found.internal)
            /\ (\A t \in Threads : pc[t] = Idle) =>
                   /\ file_name(b) \in DOMAIN fs
                   /\ EntriesIn(fs, parent_table, b) = ParseLines(history[b].found.internal)

\* C25: whenever no acquisition, use or release is under way (each thread is
\* outside the page, has ended by a panic, or holds a handle), the live-reader
\* counter of a page is the number of read handles outstanding on it.
C25_ReadsCountsHandles ==
    \A b \in Blocks :
        (/\ parent_table[b] # NoTable
         /\ \A t \in Threads : pc[t] \in {Idle, Dead} \/ pc[t].at = "holding")
            => reads[b] = Cardinality({t \in Threads :
                              tblock[t] = b /\ pc[t] = At("read", "holding")})

DistinctHashes(entries) ==
    \A i, j \in 1..Len(entries) : entries[i][1] = entries[j][1] => i = j

\* C26: a page that started with pairwise distinct hashes never holds two
\* entries with the same hash, in memory or in its file, whatever is called
\* through its handles. insert_tuple of an absent hash appends the entry at
\* the end; of a present hash it replaces the tuple where it stands;
\* remove_tuple deletes the entry of that hash and keeps the others in order.
C26_OneEntryPerHash ==
    [][\A b \in Blocks :
          LET old == block_contents[b].internal
              new == block_contents'[b].internal
          IN /\ DistinctHashes(new)
             /\ <<parent_table'[b], b>> \in DOMAIN fs' =>
                    DistinctHashes(EntriesIn(fs', parent_table', b))
             /\ \A tuple \in BlockTuples :
                    LET h == hash_tuple(tuple)
                    IN (/\ tblock[Owner] = b /\ block_contents[b].some
                        /\ write_insert_tuple(Owner, h, tuple)) =>
                           /\ HashesOf(new) =
                                  IF \E i \in 1..Len(old) : old[i][1] = h
                                  THEN HashesOf(old) ELSE Append(HashesOf(old), h)
                           /\ \A i \in 1..Len(new) :
                                  new[i] = IF new[i][1] = h THEN <<h, tuple>> ELSE old[i]
             /\ \A h \in BlockHashes :
                    (/\ tblock[Owner] = b /\ block_contents[b].some
                     /\ write_remove_tuple(Owner, h)) =>
                           /\ new = SelectSeq(old, LAMBDA e : e[1] # h)
                           /\ Len(new) >= Len(old) - 1]_vars

\* a page that was empty at construction holds two entries after a flush
\* and a load, one of them replaced where it stood
C26_Witness ==
    \E b \in Blocks :
        /\ pc[Owner] = At("write", "holding") /\ tblock[Owner] = b
        /\ history[b].found \in {None, Some(<<>>)}
        /\ history[b].released.some
        /\ block_contents[b].some
        /\ Len(block_contents[b].internal) = 2
        /\ Len(history[b].released.internal) = 2
        /\ \E i \in 1..2 :
               /\ history[b].released.internal[i][1] = block_contents[b].internal[i][1]
               /\ history[b].released.internal[i][2] # block_contents[b].internal[i][2]

\* ------------------------------------------------------------- conditions
\* ConditionOperation (conditions.rs 41-47) and Condition (140-144)
Equals(operand) == [kind |-> "Equals", operand |-> operand]
Nequals(operand) == [kind |-> "Nequals", operand |-> operand]
And(inner, next) == [kind |-> "And", inner |-> inner, next |-> next]
Or(inner, next) == [kind |-> "Or", inner |-> inner, next |-> next]

Condition_new(base, operation) == [base |-> base, operation |-> operation]

\* Condition::and, lines 154-160: the left condition's base, and its
\* operation joined to the whole right condition
Condition_and(left, right) ==
    Condition_new(left.base, And(left.operation, right))

\* a variant that follows the chain of `next` only, leaving `inner` as it is
RECURSIVE split_and_spine(_)
split_and_spine(self) ==
    IF self.operation.kind = "And"
    THEN <<Condition_new(self.base, self.operation.inner)>>
             \o split_and_spine(self.operation.next)
    ELSE <<self>>

\* Condition::split_and, lines 162-179: while ptr is an And, the condition
\* extracted from (base, inner) is split and its parts appended, and ptr moves
\* to next; the last ptr is pushed
RECURSIVE split_and(_)
split_and(self) ==
    IF self.operation.kind = "And"
    THEN split_and(Condition_new(self.base, self.operation.inner))
             \o split_and(self.operation.next)
    ELSE <<self>>

\* the conditions that are not conjunctions of the top level: comparisons,
\* and a disjunction (which holds a conjunction inside)
LeafConditions ==
    LET c1 == Condition_new("id1", Equals("id2"))
        c2 == Condition_new("id2", Nequals("id3"))
    IN {c1, c2, Condition_new("id3", Or(Equals("id4"), Condition_and(c1, c2)))}

\* every way of joining k leaves by Condition::and, each with its leaves in
\* left-to-right order
RECURSIVE Nestings(_)
Nestings(k) ==
    IF k = 1 THEN {[cond |-> c, leaves |-> <<c>>] : c \in LeafConditions}
    ELSE UNION {{[cond |-> Condition_and(x.cond, y.cond), leaves |-> x.leaves \o y.leaves] :
                    x \in Nestings(i), y \in Nestings(k - i)} : i \in 1..(k - 1)}

SplitResult(list) == [kind |-> "Split", val |-> list, positions |-> {}]

\* a condition built from at most MaxLeaves leaves is about to be split;
\* history keeps the leaves it was built from
InitCondition ==
    /\ \E k \in 1..MaxLeaves : \E x \in Nestings(k) :
           /\ call = [name |-> "split_and", arg |-> x.cond]
           /\ history = x.leaves
    /\ ret = NoRet
    /\ parent_table = <<>> /\ fs = <<>> /\ block_contents = <<>> /\ block_len = <<>>
    /\ usage = <<>> /\ reads = <<>>
    /\ pc = [t \in Threads |-> Idle]
    /\ tblock = [t \in Threads |-> 0]
    /\ local = [t \in Threads |-> <<>>]
    /\ storage_len = 0 /\ identifier = "rel" /\ global_depth = 0 /\ slots = <<>>

Condition_split_and ==
    /\ ret.kind = "none"
    /\ ret' = SplitResult(split_and(call.arg))
    /\ UNCHANGED <<blockVars, threadVars, storage_len, identifier, global_depth,
                   slots, call, history>>

NextCondition == Condition_split_and

SpecCondition == InitCondition /\ [][NextCondition]_vars

\* C27: split_and of a condition built by nesting Condition::and in any way
\* over k leaves returns exactly those k leaves in left-to-right order; a
\* condition that is not an AND comes back as a one-element list.
C27_SplitAndFlattens ==
    ret.kind = "Split" =>
        /\ ret.val = history
        /\ call.arg.operation.kind # "And" => ret.val = <<call.arg>>

\* a mixed nesting, (a AND (b AND c)) AND d, has been split
C27_Witness ==
    /\ ret.kind = "Split"
    /\ Len(history) = 4
    /\ call.arg.operation.inner.kind = "And"
    /\ call.arg.operation.inner.next.operation.kind = "And"
    /\ call.arg.operation.next.operation.kind # "And"

\* ----------------------------------------------------- relation definitions
\* An Identifier is its levels from the highest parent down to the name:
\* parent::child is <<parent, child>>.
Identifiers == {[i \in 1..n |-> MaxLevels - n + i] : n \in 1..MaxLevels}

Identifier_len(id) == Len(id)

\* the identifier without its highest parent; None when it has no parent
Identifier_strip_highest_parent(id) ==
    IF Len(id) > 1 THEN [some |-> TRUE, val |-> Tail(id)] ELSE [some |-> FALSE, val |-> <<>>]

\* RelationDefinition.attributes: a list of (Identifier, Type)
AttributeLists ==
    UNION {[1..n -> {<<id, "Int">> : id \in Identifiers}] : n \in 1..MaxAttributes}

\* RelationDefinition::min_id_length, lines 67-81: the fold over the
\* attributes, replacing the kept length when it is smaller than the next
min_id_length(attributes) ==
    LET min[i \in 0..Len(attributes)] ==
            IF i = 0 THEN [some |-> FALSE, val |-> 0]
            ELSE LET len == Identifier_len(attributes[i][1])
                 IN IF ~min[i - 1].some THEN [some |-> TRUE, val |-> len]
                    ELSE IF min[i - 1].val < len THEN [some |-> TRUE, val |-> len]
                    ELSE min[i - 1]
    IN min[Len(attributes)].val

\* RelationDefinition::all_id_len_same, lines 84-97
all_id_len_same(attributes) ==
    \A i \in 1..Len(attributes) :
        Identifier_len(attributes[i][1]) = Identifier_len(attributes[1][1])

\* the attributes (0-based) strip_highest_prefix strips: all of them when
\* the lengths agree (line 100), else those longer than min_id_length (121)
Stripped(attributes) ==
    IF all_id_len_same(attributes) THEN {i - 1 : i \in 1..Len(attributes)}
    ELSE {i - 1 : i \in {j \in 1..Len(attributes) :
                            Identifier_len(attributes[j][1]) > min_id_length(attributes)}}

\* RelationDefinition::strip_highest_prefix, lines 99-138: the attributes
\* after the map and the filter_map, None when nothing is left
strip_highest_prefix(attributes) ==
    LET mapped == [i \in 1..Len(attributes) |->
                      IF (i - 1) \in Stripped(attributes)
                      THEN Identifier_strip_highest_parent(attributes[i][1])
                      ELSE [some |-> TRUE, val |-> attributes[i][1]]]
        kept == SelectSeq([i \in 1..Len(attributes) |-> <<mapped[i], attributes[i][2]>>],
                          LAMBDA a : a[1].some)
        vec == [i \in 1..Len(kept) |-> <<kept[i][1].val, kept[i][2]>>]
    IN IF vec = <<>> THEN [some |-> FALSE, val |-> <<>>] ELSE [some |-> TRUE, val |-> vec]

InitRelation ==
    /\ \E attributes \in AttributeLists : call = [name |-> "new", arg |-> attributes]
    /\ ret = NoRet
    /\ history = <<>>
    /\ parent_table = <<>> /\ fs = <<>> /\ block_contents = <<>> /\ block_len = <<>>
    /\ usage = <<>> /\ reads = <<>>
    /\ pc = [t \in Threads |-> Idle]
    /\ tblock = [t \in Threads |-> 0]
    /\ local = [t \in Threads |-> <<>>]
    /\ storage_len = 0 /\ identifier = "rel" /\ global_depth = 0 /\ slots = <<>>

RelationDefinition_min_id_length ==
    /\ call' = [name |-> "min_id_length", arg |-> call.arg]
    /\ ret' = [kind |-> "Len", val |-> min_id_length(call.arg), positions |-> {}]
    /\ UNCHANGED <<blockVars, threadVars, storage_len, identifier, global_depth,
                   slots, history>>

RelationDefinition_strip_highest_prefix ==
    /\ call' = [name |-> "strip_highest_prefix", arg |-> call.arg]
    /\ ret' = [kind |-> "Strip", val |-> strip_highest_prefix(call.arg),
               positions |-> Stripped(call.arg)]
    /\ UNCHANGED <<blockVars, threadVars, storage_len, identifier, global_depth,
                   slots, history>>

NextRelation ==
    \/ RelationDefinition_min_id_length
    \/ RelationDefinition_strip_highest_prefix

SpecRelation == InitRelation /\ [][NextRelation]_vars

\* the least number of levels among the attributes' identifiers
LeastLevels(attributes) ==
    LET lens == {Len(attributes[i][1]) : i \in 1..Len(attributes)}
    IN CHOOSE n \in lens : \A m \in lens : n <= m

\* C28: min_id_length returns the least number of levels among the
\* attributes' identifiers (1 for parent::child1, child2), and
\* strip_highest_prefix, when the lengths differ, strips exactly the
\* attributes whose identifier is longer than that.
C28_MinIdLength ==
    /\ ret.kind = "Len" => ret.val = LeastLevels(call.arg)
    /\ (ret.kind = "Strip" /\ ~all_id_len_same(call.arg)) =>
           ret.positions = {i - 1 : i \in {j \in 1..Len(call.arg) :
                                Len(call.arg[j][1]) > LeastLevels(call.arg)}}
====
